---- MODULE Spec2Model ----
(***************************************************************************)
(* Model of the Svelte markdown preprocessor for .svelte.md files          *)
(* (preprocessor.js): parseFrontMatter, extractSvelteComponents,           *)
(* restoreSvelteComponents, configureMarked, svelteMarkdownPreprocessor    *)
(* .markup and createSvelteMarkdownPreprocessor.                           *)
(*                                                                         *)
(* A JavaScript string is modelled as a sequence of one-character strings, *)
(* so that match, split, trim, substring and replace are computed          *)
(* character by character as the code computes them.                       *)
(***************************************************************************)
EXTENDS Integers, Sequences, FiniteSets

VARIABLES
    fmText,      \* parseFrontMatter: the `content` argument
    fmFault,     \* parseFrontMatter: header line whose handling throws (0: none)
    fmPc,        \* "input" | "parsed" | "reparsed"
    fmOut,       \* what parseFrontMatter(fmText) returned
    fmOut2,      \* what parseFrontMatter(fmOut.content) returned
    exBody,      \* extractSvelteComponents: the `content` argument
    exPc,        \* "input" | "extracted" | "restored"
    exOut,       \* what extractSvelteComponents(exBody) returned
    exHtml,      \* what restoreSvelteComponents(exOut.content, exOut.components) returned
    marked,      \* the options of the shared `marked` singleton
    call,        \* the last markup() invocation: entry point and arguments
    run,         \* the values each executed stage of that invocation produced
    result       \* the outcome of that invocation

frontVars == <<fmText, fmFault, fmPc, fmOut, fmOut2>>
extractVars == <<exBody, exPc, exOut, exHtml>>
markupVars == <<marked, call, run, result>>
vars == <<fmText, fmFault, fmPc, fmOut, fmOut2, exBody, exPc, exOut, exHtml,
          marked, call, run, result>>

(***************************************************************************)
(* Bounds of the explored inputs.                                          *)
(***************************************************************************)
MaxHeaderLines == 2
MaxBodySegs == 3
MaxRepeat == 11

(***************************************************************************)
(* String literals of the source.                                          *)
(***************************************************************************)
\* "---\n"
FrontMatterOpen ==
    <<"-", "-", "-", "\n">>

\* "\n---\n"
FrontMatterClose ==
    <<"\n", "-", "-", "-", "\n">>

\* "__SVELTE_COMPONENT_"
PlaceholderPrefix ==
    <<"_", "_", "S", "V", "E", "L", "T", "E", "_", "C", "O", "M", "P", "O",
    "N", "E", "N", "T", "_">>

\* "__"
PlaceholderSuffix ==
    <<"_", "_">>

\* "localhost"
DefaultHostname ==
    <<"l", "o", "c", "a", "l", "h", "o", "s", "t">>

\* ".svelte.md"
SvelteMdExt ==
    <<".", "s", "v", "e", "l", "t", "e", ".", "m", "d">>

\* "http"
HttpPrefix ==
    <<"h", "t", "t", "p">>

\* " target=\"_blank\" rel=\"noopener noreferrer\""
ExternalTarget ==
    <<" ", "t", "a", "r", "g", "e", "t", "=", "\"", "_", "b", "l", "a", "n",
    "k", "\"", " ", "r", "e", "l", "=", "\"", "n", "o", "o", "p", "e", "n",
    "e", "r", " ", "n", "o", "r", "e", "f", "e", "r", "r", "e", "r", "\"">>

\* "hostname"
HostnameKey ==
    <<"h", "o", "s", "t", "n", "a", "m", "e">>

\* "__proto__"
ProtoKey ==
    <<"_", "_", "p", "r", "o", "t", "o", "_", "_">>

(***************************************************************************)
(* JavaScript string primitives.                                           *)
(***************************************************************************)
Whitespace == {" ", "\t", "\n", "\r"}
Quotes == {"\"", "'"}
Digits == <<"0", "1", "2", "3", "4", "5", "6", "7", "8", "9">>
UpperCase == {"A", "B", "C", "D", "E", "F", "G", "H", "I", "J", "K", "L", "M",
              "N", "O", "P", "Q", "R", "S", "T", "U", "V", "W", "X", "Y", "Z"}
LowerCase == {"a", "b", "c", "d", "e", "f", "g", "h", "i", "j", "k", "l", "m",
              "n", "o", "p", "q", "r", "s", "t", "u", "v", "w", "x", "y", "z"}
DigitSet == {Digits[i] : i \in 1..10}
AlphaNum == UpperCase \cup LowerCase \cup DigitSet

Min(S) == CHOOSE x \in S : \A y \in S : x <= y

\* s.substring(from) with a 1-based position
From(s, i) == SubSeq(s, i, Len(s))

\* whether pat occurs in s at 1-based position i
OccursAt(s, pat, i) ==
    /\ i >= 1
    /\ i + Len(pat) - 1 <= Len(s)
    /\ \A j \in 1..Len(pat) : s[i + j - 1] = pat[j]

\* s.startsWith(pat)
StartsWith(s, pat) == OccursAt(s, pat, 1)

\* s.endsWith(pat)
EndsWith(s, pat) == OccursAt(s, pat, Len(s) - Len(pat) + 1)

\* s.indexOf(pat, from) as a 1-based position, 0 when absent
IndexOf(s, pat, from) ==
    LET hits == {i \in from..(Len(s) - Len(pat) + 1) : OccursAt(s, pat, i)}
    IN  IF hits = {} THEN 0 ELSE Min(hits)

\* s.includes(pat)
Includes(s, pat) == IndexOf(s, pat, 1) # 0

\* s.trimStart()
RECURSIVE TrimStart(_)
TrimStart(s) ==
    IF Len(s) > 0 /\ s[1] \in Whitespace THEN TrimStart(Tail(s)) ELSE s

\* s.trimEnd()
RECURSIVE TrimEnd(_)
TrimEnd(s) ==
    IF Len(s) > 0 /\ s[Len(s)] \in Whitespace
    THEN TrimEnd(SubSeq(s, 1, Len(s) - 1)) ELSE s

\* s.trim()
Trim(s) == TrimEnd(TrimStart(s))

\* s.split(sep) for a one-character separator
RECURSIVE Split(_, _)
Split(s, sep) ==
    LET i == IndexOf(s, <<sep>>, 1)
    IN  IF i = 0 THEN <<s>>
        ELSE <<SubSeq(s, 1, i - 1)>> \o Split(From(s, i + 1), sep)

\* parts.join(sep)
RECURSIVE Join(_, _)
Join(parts, sep) ==
    IF Len(parts) = 0 THEN <<>>
    ELSE IF Len(parts) = 1 THEN parts[1]
    ELSE parts[1] \o sep \o Join(Tail(parts), sep)

\* the concatenation of a sequence of strings
Concat(parts) == Join(parts, <<>>)

\* String(n) for a natural number
RECURSIVE NumberToString(_)
NumberToString(n) ==
    IF n < 10 THEN <<Digits[n + 1]>>
    ELSE NumberToString(n \div 10) \o <<Digits[(n % 10) + 1]>>

\* the number a string of decimal digits denotes
RECURSIVE StringToNumber(_)
StringToNumber(s) ==
    IF Len(s) = 0 THEN 0
    ELSE 10 * StringToNumber(SubSeq(s, 1, Len(s) - 1))
         + (CHOOSE d \in 0..9 : Digits[d + 1] = s[Len(s)])

\* The text a replacement string stands for in str.replace(pattern, replacement)
\* with a string pattern: "$$" is "$", "$&" the matched text, "$`" the text
\* before the match, "$'" the text after it; any other "$" stands for itself.
RECURSIVE GetSubstitution(_, _, _, _)
GetSubstitution(replacement, matched, before, after) ==
    IF Len(replacement) = 0 THEN <<>>
    ELSE IF replacement[1] = "$" /\ Len(replacement) >= 2
            /\ replacement[2] \in {"$", "&", "`", "'"}
    THEN (CASE replacement[2] = "$" -> <<"$">>
            [] replacement[2] = "&" -> matched
            [] replacement[2] = "`" -> before
            [] replacement[2] = "'" -> after)
         \o GetSubstitution(From(replacement, 3), matched, before, after)
    ELSE <<replacement[1]>>
         \o GetSubstitution(Tail(replacement), matched, before, after)

\* str.replace(pattern, replacement) with a string pattern: the first
\* occurrence only, the replacement string expanded
StringReplace(str, pattern, replacement) ==
    LET i == IndexOf(str, pattern, 1)
    IN  IF i = 0 THEN str
        ELSE LET before == SubSeq(str, 1, i - 1)
                 after == From(str, i + Len(pattern))
             IN  before
                 \o GetSubstitution(replacement, pattern, before, after)
                 \o after

(***************************************************************************)
(* parseFrontMatter                                                        *)
(***************************************************************************)
\* the match of a pattern that lost its "^": the first `---` line anywhere
FrontMatterMatchUnanchored(content) ==
    LET s == IndexOf(content, FrontMatterOpen, 1)
        closes == {i \in (s + 4)..(Len(content) - 4) :
                       OccursAt(content, FrontMatterClose, i)}
    IN  IF s # 0 /\ closes # {}
        THEN LET i == Min(closes)
             IN  [matched |-> TRUE,
                  yamlContent |-> SubSeq(content, s + 4, i - 1),
                  markdownContent |-> From(content, i + 5)]
        ELSE [matched |-> FALSE, yamlContent |-> <<>>,
              markdownContent |-> <<>>]

\* content.match(/^---\n([\s\S]*?)\n---\n([\s\S]*)$/): the opening line at
\* the very start, then the first closing line (the first group is lazy)
FrontMatterMatch(content) ==
    LET closes == {i \in 5..(Len(content) - 4) :
                       OccursAt(content, FrontMatterClose, i)}
    IN  IF StartsWith(content, FrontMatterOpen) /\ closes # {}
        THEN LET i == Min(closes)
             IN  [matched |-> TRUE,
                  yamlContent |-> SubSeq(content, 5, i - 1),
                  markdownContent |-> From(content, i + 5)]
        ELSE [matched |-> FALSE, yamlContent |-> <<>>,
              markdownContent |-> <<>>]

\* value.replace(/^["']|["']$/g, ""): a quote at the start is removed, and
\* a quote at the end is removed, each on its own
StripQuotes(value) ==
    LET s1 == IF Len(value) > 0 /\ value[1] \in Quotes
              THEN Tail(value) ELSE value
    IN  IF Len(s1) > 0 /\ s1[Len(s1)] \in Quotes
        THEN SubSeq(s1, 1, Len(s1) - 1) ELSE s1

\* whether a property key is an array index (a canonical numeric string):
\* an object enumerates such keys first, in ascending numeric order
IsArrayIndex(key) ==
    /\ Len(key) > 0
    /\ \A i \in 1..Len(key) : key[i] \in DigitSet
    /\ (Len(key) = 1 \/ key[1] # "0")

\* where a new key goes in the enumeration order of an object
InsertPosition(obj, key) ==
    IF IsArrayIndex(key)
    THEN Cardinality({i \in 1..Len(obj) :
             /\ IsArrayIndex(obj[i].key)
             /\ StringToNumber(obj[i].key) < StringToNumber(key)}) + 1
    ELSE Len(obj) + 1

\* frontMatter[key] = value on a plain object, kept as the sequence of its
\* own properties in enumeration order; assigning a string to __proto__
\* adds no property
SetProperty(obj, key, value) ==
    IF key = ProtoKey THEN obj
    ELSE IF \E i \in 1..Len(obj) : obj[i].key = key
    THEN [i \in 1..Len(obj) |->
             IF obj[i].key = key THEN [key |-> key, value |-> value]
             ELSE obj[i]]
    ELSE LET p == InsertPosition(obj, key)
         IN  SubSeq(obj, 1, p - 1) \o <<[key |-> key, value |-> value]>>
             \o SubSeq(obj, p, Len(obj))

\* whether obj has an own property key
HasProperty(obj, key) == \E i \in 1..Len(obj) : obj[i].key = key

\* obj[key] for an own property
GetProperty(obj, key) ==
    obj[CHOOSE i \in 1..Len(obj) : obj[i].key = key].value

\* the body of the for loop over the header lines
ParseLine(frontMatter, line) ==
    LET trimmed == Trim(line)
        parts == Split(trimmed, ":")
        key == parts[1]
        valueParts == Tail(parts)
    IN  IF Len(trimmed) > 0 /\ ~StartsWith(trimmed, <<"#">>)
           /\ Len(key) > 0 /\ Len(valueParts) > 0
        THEN SetProperty(frontMatter, Trim(key),
                         StripQuotes(Trim(Join(valueParts, <<":">>))))
        ELSE frontMatter

\* the for loop inside the try block; an exception thrown while line number
\* `fault` is handled leaves the loop, with the entries assigned so far
RECURSIVE ParseLines(_, _, _, _)
ParseLines(lines, k, fault, frontMatter) ==
    IF k > Len(lines) \/ k = fault THEN frontMatter
    ELSE ParseLines(lines, k + 1, fault, ParseLine(frontMatter, lines[k]))

\* parseFrontMatter(content); the catch block only logs, and the return
\* statement after it is the same on both paths
ParseFrontMatterWithFault(content, fault) ==
    LET match == FrontMatterMatch(content)
    IN  IF ~match.matched
        THEN [frontMatter |-> <<>>, content |-> content]
        ELSE [frontMatter |->
                  ParseLines(Split(match.yamlContent, "\n"), 1, fault, <<>>),
              content |-> match.markdownContent]

ParseFrontMatter(content) == ParseFrontMatterWithFault(content, 0)

(***************************************************************************)
(* Inputs of parseFrontMatter: a header block of up to MaxHeaderLines      *)
(* lines followed by a body, and texts without a header block.             *)
(***************************************************************************)
\* "title: Hi"
LineTitle ==
    <<"t", "i", "t", "l", "e", ":", " ", "H", "i">>

\* "url: \"http://a:b\""
LineUrl ==
    <<"u", "r", "l", ":", " ", "\"", "h", "t", "t", "p", ":", "/", "/", "a",
    ":", "b", "\"">>

\* "  # note: x"
LineComment ==
    <<" ", " ", "#", " ", "n", "o", "t", "e", ":", " ", "x">>

\* "  "
LineBlank ==
    <<" ", " ">>

\* "plain"
LinePlain ==
    <<"p", "l", "a", "i", "n">>

\* "who: Rock 'n'"
LineRock ==
    <<"w", "h", "o", ":", " ", "R", "o", "c", "k", " ", "'", "n", "'">>

\* ": v"
LineNoKey ==
    <<":", " ", "v">>

\* "10: x"
LineTen ==
    <<"1", "0", ":", " ", "x">>

\* " 9 : 'y'"
LineNine ==
    <<" ", "9", " ", ":", " ", "'", "y", "'">>

\* "title: Other"
LineTitle2 ==
    <<"t", "i", "t", "l", "e", ":", " ", "O", "t", "h", "e", "r">>

\* "# Hello\n"
BodyHello ==
    <<"#", " ", "H", "e", "l", "l", "o", "\n">>

\* "---\nb: 2\n---\nrest"
BodyHeader ==
    <<"-", "-", "-", "\n", "b", ":", " ", "2", "\n", "-", "-", "-", "\n",
    "r", "e", "s", "t">>

\* "---\nb: 2\n---"
BodyNoNewline ==
    <<"-", "-", "-", "\n", "b", ":", " ", "2", "\n", "-", "-", "-">>

\* "text\n---\nc: 3\n---\n"
BodyRule ==
    <<"t", "e", "x", "t", "\n", "-", "-", "-", "\n", "c", ":", " ", "3",
    "\n", "-", "-", "-", "\n">>

HeaderLines ==
    {LineTitle, LineUrl, LineComment, LineBlank, LinePlain, LineRock,
     LineNoKey, LineTen, LineNine, LineTitle2}

FrontBodies == {<<>>, BodyHello, BodyHeader, BodyNoNewline, BodyRule}

HeaderBlocks ==
    {Join(ls, <<"\n">>) :
        ls \in UNION {[1..k -> HeaderLines] : k \in 0..MaxHeaderLines}}

FrontTexts ==
    {FrontMatterOpen \o h \o FrontMatterClose \o b :
        h \in HeaderBlocks, b \in FrontBodies}
    \cup FrontBodies

NoReturn == [frontMatter |-> <<>>, content |-> <<>>]

FrontIdle ==
    /\ fmText = <<>>
    /\ fmFault = 0
    /\ fmPc = "idle"
    /\ fmOut = NoReturn
    /\ fmOut2 = NoReturn

(***************************************************************************)
(* extractSvelteComponents                                                 *)
(***************************************************************************)
NoMatch ==
    [matched |-> FALSE, index |-> 0, fullMatch |-> <<>>, name |-> <<>>,
     attributes |-> <<>>, paired |-> FALSE, children |-> <<>>]

\* str.substring(start, end) with 0-based arguments, each clamped to the
\* length of the string and swapped when start > end
Substring(str, start, end) ==
    LET a == IF start < 0 THEN 0 ELSE IF start > Len(str) THEN Len(str) ELSE start
        b == IF end < 0 THEN 0 ELSE IF end > Len(str) THEN Len(str) ELSE end
    IN  IF a <= b THEN SubSeq(str, a + 1, b) ELSE SubSeq(str, b + 1, a)

\* str.substring(start)
SubstringFrom(str, start) == Substring(str, start, Len(str))

\* the longest [A-Z][a-zA-Z0-9]* at 1-based position p, 0 when none
RECURSIVE NameRun(_, _)
NameRun(content, p) ==
    IF p <= Len(content) /\ content[p] \in AlphaNum
    THEN 1 + NameRun(content, p + 1)
    ELSE 0

NameRunLength(content, p) ==
    IF p <= Len(content) /\ content[p] \in UpperCase
    THEN 1 + NameRun(content, p + 1)
    ELSE 0

\* </name>
CloseTag(name) == <<"<", "/">> \o name \o <<">">>

\* the rest of the pattern once the name group holds nameLen characters of
\* the tag opened at 1-based position p: ([\s\S]*?)(?:\/>|>([\s\S]*?)<\/\1>),
\* the attributes group taking as few characters as lets the rest match and
\* the children group ending at the nearest closing tag
RECURSIVE MatchRest(_, _, _, _)
MatchRest(content, p, nameLen, q) ==
    LET name == SubSeq(content, p + 1, p + nameLen)
        attributes == SubSeq(content, p + nameLen + 1, q - 1)
        close == IndexOf(content, CloseTag(name), q + 1)
    IN  IF q > Len(content) THEN NoMatch
        ELSE IF OccursAt(content, <<"/", ">">>, q)
        THEN [matched |-> TRUE, index |-> p - 1,
              fullMatch |-> SubSeq(content, p, q + 1), name |-> name,
              attributes |-> attributes, paired |-> FALSE,
              children |-> <<>>]
        ELSE IF content[q] = ">" /\ close # 0
        THEN [matched |-> TRUE, index |-> p - 1,
              fullMatch |-> SubSeq(content, p, close + Len(name) + 2),
              name |-> name, attributes |-> attributes, paired |-> TRUE,
              children |-> SubSeq(content, q + 1, close - 1)]
        ELSE MatchRest(content, p, nameLen, q + 1)

\* the name group is greedy and gives characters back one at a time
RECURSIVE MatchName(_, _, _)
MatchName(content, p, nameLen) ==
    IF nameLen = 0 THEN NoMatch
    ELSE LET m == MatchRest(content, p, nameLen, p + nameLen + 1)
         IN  IF m.matched THEN m ELSE MatchName(content, p, nameLen - 1)

\* a match of componentRegex that starts at 1-based position p
MatchAt(content, p) ==
    IF content[p] = "<"
    THEN MatchName(content, p, NameRunLength(content, p + 1))
    ELSE NoMatch

\* componentRegex.exec(content) with lastIndex = p - 1: the leftmost match
RegexExec(content, p) ==
    LET starts == {i \in p..Len(content) : MatchAt(content, i).matched}
    IN  IF starts = {} THEN NoMatch ELSE MatchAt(content, Min(starts))

\* the matches the while loop sees: each exec resumes where the last match
\* ended
RECURSIVE RegexExecAll(_, _)
RegexExecAll(content, p) ==
    LET m == RegexExec(content, p)
    IN  IF ~m.matched THEN <<>>
        ELSE <<m>> \o RegexExecAll(content, m.index + 1 + Len(m.fullMatch))

\* a placeholder without its closing underscores
PlaceholderOpenEnded(index) == PlaceholderPrefix \o NumberToString(index)

\* `__SVELTE_COMPONENT_${components.length}__`
Placeholder(index) ==
    PlaceholderPrefix \o NumberToString(index) \o PlaceholderSuffix

\* an offset that is never lowered
NextOffsetClamped(offset, fullMatch, placeholder) ==
    IF Len(fullMatch) < Len(placeholder) THEN offset
    ELSE offset + (Len(fullMatch) - Len(placeholder))

\* offset += fullMatch.length - placeholder.length
NextOffset(offset, fullMatch, placeholder) ==
    offset + (Len(fullMatch) - Len(placeholder))

\* the body of the while loop, over the matches in the order exec gives them
RECURSIVE ExtractLoop(_, _, _, _)
ExtractLoop(matches, components, modifiedContent, offset) ==
    IF Len(matches) = 0
    THEN [content |-> modifiedContent, components |-> components]
    ELSE LET match == Head(matches)
             placeholder == Placeholder(Len(components))
             component ==
                 [name |-> match.name,
                  attributes |-> Trim(match.attributes),
                  children |-> match.children,
                  fullMatch |-> match.fullMatch,
                  placeholder |-> placeholder]
             startIndex == match.index - offset
         IN  ExtractLoop(
                 Tail(matches),
                 Append(components, component),
                 Substring(modifiedContent, 0, startIndex)
                     \o placeholder
                     \o SubstringFrom(modifiedContent,
                                      startIndex + Len(match.fullMatch)),
                 NextOffset(offset, match.fullMatch, placeholder))

ExtractSvelteComponents(content) ==
    ExtractLoop(RegexExecAll(content, 1), <<>>, content, 0)

(***************************************************************************)
(* restoreSvelteComponents                                                 *)
(***************************************************************************)
\* the markup a component is restored as: paired when children is a
\* non-empty string, self-closing otherwise
RestoredComponent(component) ==
    LET open == <<"<">> \o component.name
                \o (IF Len(component.attributes) > 0
                    THEN <<" ">> \o component.attributes ELSE <<>>)
    IN  IF Len(component.children) > 0
        THEN open \o <<">">> \o component.children
             \o CloseTag(component.name)
        ELSE open \o <<" ", "/", ">">>

\* components.forEach: one html.replace(placeholder, restoredComponent) each
RECURSIVE RestoreSvelteComponents(_, _)
RestoreSvelteComponents(html, components) ==
    IF Len(components) = 0 THEN html
    ELSE RestoreSvelteComponents(
             StringReplace(html, components[1].placeholder,
                           RestoredComponent(components[1])),
             Tail(components))

(***************************************************************************)
(* Inputs of extractSvelteComponents: bodies of up to MaxBodySegs segments *)
(* of text and well-formed tags, and runs of up to MaxRepeat tags.         *)
(***************************************************************************)
\* "Hi "
SegText ==
    <<"H", "i", " ">>

\* "<A/>"
SegShort ==
    <<"<", "A", "/", ">">>

\* "<Box>text</Box>"
SegBox ==
    <<"<", "B", "o", "x", ">", "t", "e", "x", "t", "<", "/", "B", "o", "x",
    ">">>

\* "<Foo bar=\"1\"  />"
SegFoo ==
    <<"<", "F", "o", "o", " ", "b", "a", "r", "=", "\"", "1", "\"", " ", " ",
    "/", ">">>

\* "<Counter start={10} step={2}>go</Counter>"
SegLong ==
    <<"<", "C", "o", "u", "n", "t", "e", "r", " ", "s", "t", "a", "r", "t",
    "=", "{", "1", "0", "}", " ", "s", "t", "e", "p", "=", "{", "2", "}",
    ">", "g", "o", "<", "/", "C", "o", "u", "n", "t", "e", "r", ">">>

\* "<Price cur=\"$&\" />"
SegDollar ==
    <<"<", "P", "r", "i", "c", "e", " ", "c", "u", "r", "=", "\"", "$", "&",
    "\"", " ", "/", ">">>

\* "<Box></Box>"
SegEmptyPair ==
    <<"<", "B", "o", "x", ">", "<", "/", "B", "o", "x", ">">>

BodySegments ==
    {SegText, SegShort, SegBox, SegFoo, SegLong, SegDollar, SegEmptyPair}

RECURSIVE Repeat(_, _)
Repeat(s, n) == IF n = 0 THEN <<>> ELSE s \o Repeat(s, n - 1)

ExtractBodies ==
    {Concat(segs) :
        segs \in UNION {[1..k -> BodySegments] : k \in 0..MaxBodySegs}}
    \cup {Repeat(SegShort, n) : n \in 0..MaxRepeat}

(***************************************************************************)
(* configureMarked and the markdown engine                                 *)
(***************************************************************************)
\* a value that may be undefined
Undefined == [defined |-> FALSE, value |-> <<>>]
Defined(v) == [defined |-> TRUE, value |-> v]

\* x || fallback for a string or undefined x
OrElse(x, fallback) ==
    IF x.defined /\ Len(x.value) > 0 THEN x.value ELSE fallback

\* obj.key for a property that may be absent
PropertyOf(obj, key) ==
    IF HasProperty(obj, key) THEN Defined(GetProperty(obj, key))
    ELSE Undefined

\* the options of the `marked` singleton before any setOptions call
DefaultMarked ==
    [renderer |-> [custom |-> FALSE, hostname |-> Undefined],
     gfm |-> TRUE, breaks |-> FALSE, pedantic |-> FALSE,
     smartLists |-> FALSE, smartypants |-> FALSE]

\* a configuration that keeps a renderer installed by an earlier call
ConfigureMarkedOnce(engine, options) ==
    IF engine.renderer.custom THEN engine
    ELSE [renderer |-> [custom |-> TRUE, hostname |-> options.hostname],
          gfm |-> TRUE, breaks |-> FALSE, pedantic |-> FALSE,
          smartLists |-> TRUE, smartypants |-> TRUE]

\* configureMarked(options): marked.setOptions with a new renderer whose
\* link rule closes over options.hostname, and the fixed option values;
\* markup passes no markedOptions
ConfigureMarked(engine, options) ==
    [engine EXCEPT
        !.renderer = [custom |-> TRUE, hostname |-> options.hostname],
        !.gfm = TRUE, !.breaks = FALSE, !.pedantic = FALSE,
        !.smartLists = TRUE, !.smartypants = TRUE]

\* "<a href=\""
AnchorOpen ==
    <<"<", "a", " ", "h", "r", "e", "f", "=", "\"">>

\* "</a>"
AnchorClose ==
    <<"<", "/", "a", ">">>

\* renderer.link({ href, title, text }) of the renderer configureMarked
\* installs; title is a string or undefined
RendererLink(hostname, href, title, text) ==
    LET isExternal ==
            /\ StartsWith(href, HttpPrefix)
            /\ ~Includes(href, OrElse(hostname, DefaultHostname))
        target == IF isExternal THEN ExternalTarget ELSE <<>>
        titleAttr ==
            IF title.defined /\ Len(title.value) > 0
            THEN <<" ", "t", "i", "t", "l", "e", "=", "\"">> \o title.value
                 \o <<"\"">>
            ELSE <<>>
    IN  AnchorOpen \o href \o <<"\"">> \o titleAttr \o target \o <<">">>
        \o text \o AnchorClose

\* the link rule of the engine's own renderer
DefaultLink(href, text) ==
    AnchorOpen \o href \o <<"\"">> \o <<">">> \o text \o AnchorClose

\* the inline pass of the engine over one paragraph, for the inline syntax
\* the documents here use: [text](href) goes to the link rule of the
\* renderer in force, every other character is kept
RECURSIVE MarkedInline(_, _)
MarkedInline(engine, text) ==
    LET open == IndexOf(text, <<"[">>, 1)
        mid == IF open = 0 THEN 0 ELSE IndexOf(text, <<"]", "(">>, open + 1)
        close == IF mid = 0 THEN 0 ELSE IndexOf(text, <<")">>, mid + 2)
    IN  IF close = 0 THEN text
        ELSE LET label == SubSeq(text, open + 1, mid - 1)
                 href == SubSeq(text, mid + 2, close - 1)
             IN  SubSeq(text, 1, open - 1)
                 \o (IF engine.renderer.custom
                     THEN RendererLink(engine.renderer.hostname, href,
                                       Undefined, label)
                     ELSE DefaultLink(href, label))
                 \o MarkedInline(engine, From(text, close + 1))

\* marked.parse(text) under the options in force: the text as one
\* paragraph, nothing for an empty text
MarkedParse(engine, text) ==
    IF Len(Trim(text)) = 0 THEN <<>>
    ELSE <<"<", "p", ">">> \o MarkedInline(engine, Trim(text))
         \o <<"<", "/", "p", ">", "\n">>

(***************************************************************************)
(* svelteMarkdownPreprocessor.markup and createSvelteMarkdownPreprocessor  *)
(***************************************************************************)
\* JSON.stringify of a string
RECURSIVE JsonEscape(_)
JsonEscape(s) ==
    IF Len(s) = 0 THEN <<>>
    ELSE (CASE s[1] = "\"" -> <<"\\", "\"">>
            [] s[1] = "\\" -> <<"\\", "\\">>
            [] s[1] = "\n" -> <<"\\", "n">>
            [] OTHER -> <<s[1]>>)
         \o JsonEscape(Tail(s))

JsonString(s) == <<"\"">> \o JsonEscape(s) \o <<"\"">>

\* JSON.stringify(frontMatter, null, 2)
JsonStringify(obj) ==
    IF Len(obj) = 0 THEN <<"{", "}">>
    ELSE <<"{", "\n">>
         \o Join([i \in 1..Len(obj) |->
                     <<" ", " ">> \o JsonString(obj[i].key) \o <<":", " ">>
                     \o JsonString(obj[i].value)],
                 <<",", "\n">>)
         \o <<"\n", "}">>

\* Object.keys(frontMatter).join(", ")
KeysJoined(obj) == Join([i \in 1..Len(obj) |-> obj[i].key], <<",", " ">>)

\* "<script>\n\n      let { frontMatter = "
ScriptOpen ==
    <<"<", "s", "c", "r", "i", "p", "t", ">", "\n", "\n", " ", " ", " ", " ",
    " ", " ", "l", "e", "t", " ", "{", " ", "f", "r", "o", "n", "t", "M",
    "a", "t", "t", "e", "r", " ", "=", " ">>

\* ", ...props } = $props();\n      \n      // Destructure front matter properties as individual props\n      let { "
ScriptMiddle ==
    <<",", " ", ".", ".", ".", "p", "r", "o", "p", "s", " ", "}", " ", "=",
    " ", "$", "p", "r", "o", "p", "s", "(", ")", ";", "\n", " ", " ", " ",
    " ", " ", " ", "\n", " ", " ", " ", " ", " ", " ", "/", "/", " ", "D",
    "e", "s", "t", "r", "u", "c", "t", "u", "r", "e", " ", "f", "r", "o",
    "n", "t", " ", "m", "a", "t", "t", "e", "r", " ", "p", "r", "o", "p",
    "e", "r", "t", "i", "e", "s", " ", "a", "s", " ", "i", "n", "d", "i",
    "v", "i", "d", "u", "a", "l", " ", "p", "r", "o", "p", "s", "\n", " ",
    " ", " ", " ", " ", " ", "l", "e", "t", " ", "{", " ">>

\* " } = { ...frontMatter, ...props };\n    \n</script>\n\n"
ScriptClose ==
    <<" ", "}", " ", "=", " ", "{", " ", ".", ".", ".", "f", "r", "o", "n",
    "t", "M", "a", "t", "t", "e", "r", ",", " ", ".", ".", ".", "p", "r",
    "o", "p", "s", " ", "}", ";", "\n", " ", " ", " ", " ", "\n", "<", "/",
    "s", "c", "r", "i", "p", "t", ">", "\n", "\n">>

\* the svelteComponent template
SvelteComponent(frontMatter, html) ==
    ScriptOpen \o JsonStringify(frontMatter) \o ScriptMiddle
    \o KeysJoined(frontMatter) \o ScriptClose \o html

PipelineStages ==
    <<"parseFrontMatter", "extractSvelteComponents", "configureMarked",
      "marked.parse", "restoreSvelteComponents", "overwrite">>

NoRun ==
    [stages |-> <<>>, markedBefore |-> DefaultMarked, frontMatter |-> <<>>,
     components |-> <<>>, rendered |-> <<>>]

ReturnsUndefined == [kind |-> "undefined", code |-> <<>>, map |-> FALSE]
Throws == [kind |-> "thrown", code |-> <<>>, map |-> FALSE]
Returns(code) == [kind |-> "returned", code |-> code, map |-> TRUE]

\* a test that takes every file whose name ends in .md
IsMarkdownFile(filename) ==
    /\ filename.defined
    /\ Len(filename.value) > 0
    /\ EndsWith(filename.value, <<".", "m", "d">>)

\* the negation of: !filename || !filename.endsWith(".svelte.md")
IsSvelteMarkdownFile(filename) ==
    /\ filename.defined
    /\ Len(filename.value) > 0
    /\ EndsWith(filename.value, SvelteMdExt)

\* svelteMarkdownPreprocessor.markup({ content, filename }) started with
\* the engine options `engine`: the outcome, the engine options it leaves
\* and the values of the stages it ran. MagicString's overwrite(0, 0, ...)
\* throws on the zero-length range of an empty content; the catch block logs
\* and rethrows.
Markup(engine, content, filename) ==
    IF ~IsSvelteMarkdownFile(filename)
    THEN [result |-> ReturnsUndefined, marked |-> engine,
          run |-> [NoRun EXCEPT !.markedBefore = engine]]
    ELSE LET parsed == ParseFrontMatter(content)
             frontMatter == parsed.frontMatter
             extracted == ExtractSvelteComponents(parsed.content)
             configured ==
                 ConfigureMarked(engine,
                     [hostname |->
                         Defined(OrElse(PropertyOf(frontMatter, HostnameKey),
                                        DefaultHostname))])
             rendered == MarkedParse(configured, extracted.content)
             html == RestoreSvelteComponents(rendered, extracted.components)
         IN  [result |->
                  IF Len(content) = 0 THEN Throws
                  ELSE Returns(SvelteComponent(frontMatter, html)),
              marked |-> configured,
              run |-> [stages |->
                           IF Len(content) = 0
                           THEN SubSeq(PipelineStages, 1, 5)
                           ELSE PipelineStages,
                       markedBefore |-> engine,
                       frontMatter |-> frontMatter,
                       components |-> extracted.components,
                       rendered |-> rendered]]

\* createSvelteMarkdownPreprocessor(options).markup({ content, filename }):
\* the same filename test, then svelteMarkdownPreprocessor.markup; options
\* is not read
FactoryMarkup(engine, options, content, filename) ==
    IF ~IsSvelteMarkdownFile(filename)
    THEN [result |-> ReturnsUndefined, marked |-> engine,
          run |-> [NoRun EXCEPT !.markedBefore = engine]]
    ELSE Markup(engine, content, filename)

(***************************************************************************)
(* Invocations: documents, file names and factory options.                 *)
(***************************************************************************)
\* "---\ntitle: Hi\n---\nHello <Foo bar=\"1\" />"
DocHello ==
    <<"-", "-", "-", "\n", "t", "i", "t", "l", "e", ":", " ", "H", "i", "\n",
    "-", "-", "-", "\n", "H", "e", "l", "l", "o", " ", "<", "F", "o", "o",
    " ", "b", "a", "r", "=", "\"", "1", "\"", " ", "/", ">">>

\* "[home](https://example.com/x) [out](https://other.org/x) [rel](/local/path)"
DocLinks ==
    <<"[", "h", "o", "m", "e", "]", "(", "h", "t", "t", "p", "s", ":", "/",
    "/", "e", "x", "a", "m", "p", "l", "e", ".", "c", "o", "m", "/", "x",
    ")", " ", "[", "o", "u", "t", "]", "(", "h", "t", "t", "p", "s", ":",
    "/", "/", "o", "t", "h", "e", "r", ".", "o", "r", "g", "/", "x", ")",
    " ", "[", "r", "e", "l", "]", "(", "/", "l", "o", "c", "a", "l", "/",
    "p", "a", "t", "h", ")">>

\* "---\nhostname: example.com\n---\n[home](https://example.com/x) [out](https://other.org/x)"
DocHosted ==
    <<"-", "-", "-", "\n", "h", "o", "s", "t", "n", "a", "m", "e", ":", " ",
    "e", "x", "a", "m", "p", "l", "e", ".", "c", "o", "m", "\n", "-", "-",
    "-", "\n", "[", "h", "o", "m", "e", "]", "(", "h", "t", "t", "p", "s",
    ":", "/", "/", "e", "x", "a", "m", "p", "l", "e", ".", "c", "o", "m",
    "/", "x", ")", " ", "[", "o", "u", "t", "]", "(", "h", "t", "t", "p",
    "s", ":", "/", "/", "o", "t", "h", "e", "r", ".", "o", "r", "g", "/",
    "x", ")">>

\* "Cost <Price cur=\"$&\" />"
DocDollar ==
    <<"C", "o", "s", "t", " ", "<", "P", "r", "i", "c", "e", " ", "c", "u",
    "r", "=", "\"", "$", "&", "\"", " ", "/", ">">>

\* "Hi <A/> and <Box>text</Box> [rel](/local/path)"
DocTwo ==
    <<"H", "i", " ", "<", "A", "/", ">", " ", "a", "n", "d", " ", "<", "B",
    "o", "x", ">", "t", "e", "x", "t", "<", "/", "B", "o", "x", ">", " ",
    "[", "r", "e", "l", "]", "(", "/", "l", "o", "c", "a", "l", "/", "p",
    "a", "t", "h", ")">>

\* "plain text"
DocPlain ==
    <<"p", "l", "a", "i", "n", " ", "t", "e", "x", "t">>

\* "https://example.com/x"
HrefHome ==
    <<"h", "t", "t", "p", "s", ":", "/", "/", "e", "x", "a", "m", "p", "l",
    "e", ".", "c", "o", "m", "/", "x">>

\* "https://other.org/x"
HrefOut ==
    <<"h", "t", "t", "p", "s", ":", "/", "/", "o", "t", "h", "e", "r", ".",
    "o", "r", "g", "/", "x">>

\* "/local/path"
HrefLocal ==
    <<"/", "l", "o", "c", "a", "l", "/", "p", "a", "t", "h">>

\* "example.com"
HostExample ==
    <<"e", "x", "a", "m", "p", "l", "e", ".", "c", "o", "m">>

\* "a.svelte.md"
FileHybrid ==
    <<"a", ".", "s", "v", "e", "l", "t", "e", ".", "m", "d">>

\* "a.svelte"
FileSvelte ==
    <<"a", ".", "s", "v", "e", "l", "t", "e">>

\* "a.md"
FileMarkdown ==
    <<"a", ".", "m", "d">>

\* "svelte.md"
FileNoDot ==
    <<"s", "v", "e", "l", "t", "e", ".", "m", "d">>

Documents == {<<>>, DocHello, DocLinks, DocHosted, DocDollar, DocTwo, DocPlain}

Filenames ==
    {Undefined, Defined(<<>>), Defined(FileHybrid), Defined(FileSvelte),
     Defined(FileMarkdown), Defined(FileNoDot)}

FactoryOptions == {[hostname |-> Undefined], [hostname |-> Defined(HostExample)]}

NoOptions == [hostname |-> Undefined]

NoCall ==
    [entry |-> "none", options |-> NoOptions, content |-> <<>>,
     filename |-> Undefined]

ExtractIdle ==
    /\ exBody = <<>>
    /\ exPc = "idle"
    /\ exOut = [content |-> <<>>, components |-> <<>>]
    /\ exHtml = <<>>

MarkupIdle ==
    /\ marked = DefaultMarked
    /\ call = NoCall
    /\ run = NoRun
    /\ result = ReturnsUndefined

(***************************************************************************)
(* Specification of parseFrontMatter applied to a text, and applied again  *)
(* to the body it returned.                                                *)
(***************************************************************************)
FrontInit ==
    /\ fmText \in FrontTexts
    /\ fmFault \in 0..MaxHeaderLines
    /\ fmPc = "input"
    /\ fmOut = NoReturn
    /\ fmOut2 = NoReturn
    /\ ExtractIdle
    /\ MarkupIdle

FrontParse ==
    /\ fmPc = "input"
    /\ fmOut' = ParseFrontMatterWithFault(fmText, fmFault)
    /\ fmPc' = "parsed"
    /\ UNCHANGED <<fmText, fmFault, fmOut2, extractVars, markupVars>>

FrontReparse ==
    /\ fmPc = "parsed"
    /\ fmOut2' = ParseFrontMatter(fmOut.content)
    /\ fmPc' = "reparsed"
    /\ UNCHANGED <<fmText, fmFault, fmOut, extractVars, markupVars>>

FrontNext == FrontParse \/ FrontReparse

SpecFront == FrontInit /\ [][FrontNext]_vars

(***************************************************************************)
(* Properties of parseFrontMatter, stated on SpecFront.                    *)
(***************************************************************************)
\* a text that begins with a `---` line and has a later `---` line
HeaderShaped(text) ==
    /\ Len(text) >= 4
    /\ SubSeq(text, 1, 4) = FrontMatterOpen
    /\ \E i \in 5..Len(text) :
           /\ i + 4 <= Len(text)
           /\ SubSeq(text, i, i + 4) = FrontMatterClose

\* the lines of the header block of a header-shaped text
HeaderLinesOf(text) ==
    LET i == Min({j \in 5..Len(text) :
                      /\ j + 4 <= Len(text)
                      /\ SubSeq(text, j, j + 4) = FrontMatterClose})
    IN  Split(SubSeq(text, 5, i - 1), "\n")

EmptyMetadata == <<>>

\* C3 as stated: for every text with a valid header, parsing the body that
\* the first parse returned yields empty metadata and the same body.
C3_ReparseIsIdentity ==
    (fmPc = "reparsed" /\ fmFault = 0 /\ HeaderShaped(fmText))
        => fmOut2 = [frontMatter |-> EmptyMetadata, content |-> fmOut.content]

\* C3 amended: the same, for every text with a valid header whose returned
\* body does not itself begin with a header block (a `---` line, later a
\* `---` line).
C3_ReparseIsIdentityUnlessHeader ==
    (fmPc = "reparsed" /\ fmFault = 0 /\ HeaderShaped(fmText)
     /\ ~HeaderShaped(fmOut.content))
        => fmOut2 = [frontMatter |-> EmptyMetadata, content |-> fmOut.content]

C3_Witness ==
    /\ fmPc = "reparsed"
    /\ fmFault = 0
    /\ HeaderShaped(fmText)
    /\ ~HeaderShaped(fmOut.content)
    /\ Len(fmOut.frontMatter) > 0
    /\ Includes(fmOut.content, <<"-", "-", "-">>)
    /\ fmOut2 = [frontMatter |-> EmptyMetadata, content |-> fmOut.content]

\* C4 as stated: when an exception is raised while a line of a detected
\* header block is parsed, the call returns empty metadata and the original,
\* unmodified input text as the body.
C4_ExceptionGivesEmptyAndOriginal ==
    (fmPc = "parsed" /\ HeaderShaped(fmText)
     /\ fmFault \in 1..Len(HeaderLinesOf(fmText)))
        => fmOut = [frontMatter |-> EmptyMetadata, content |-> fmText]

\* The entry the line-parsing rule gives for one header line, as a sequence
\* of zero or one entries: a non-blank line that is no comment and holds a
\* ":" is split on its first ":", the key the trimmed left side, the value
\* the trimmed remainder less one layer of surrounding quotes. A line with
\* nothing left of its first ":" names no key and is read as adding no entry.
RuleUnquote(value) ==
    IF Len(value) >= 2 /\ value[1] \in Quotes /\ value[Len(value)] = value[1]
    THEN SubSeq(value, 2, Len(value) - 1)
    ELSE value

RuleEntry(line) ==
    LET t == Trim(line)
        colons == {i \in 1..Len(t) : t[i] = ":"}
    IN  IF Len(t) = 0 \/ t[1] = "#" \/ colons = {} \/ t[1] = ":" THEN <<>>
        ELSE LET c == Min(colons)
             IN  <<[key |-> Trim(SubSeq(t, 1, c - 1)),
                    value |-> RuleUnquote(Trim(SubSeq(t, c + 1, Len(t))))]>>

\* the mapping the rule gives for the lines, in source order; a key that
\* comes again keeps its place and takes the later value
RECURSIVE RuleMapping(_, _)
RuleMapping(lines, mapping) ==
    IF Len(lines) = 0 THEN mapping
    ELSE LET e == RuleEntry(lines[1])
             next ==
                 IF Len(e) = 0 THEN mapping
                 ELSE IF \E i \in 1..Len(mapping) : mapping[i].key = e[1].key
                 THEN [i \in 1..Len(mapping) |->
                          IF mapping[i].key = e[1].key THEN e[1]
                          ELSE mapping[i]]
                 ELSE Append(mapping, e[1])
         IN  RuleMapping(Tail(lines), next)

\* C10 as stated: within a detected header block the mapping returned is the
\* one the line-parsing rule gives, entries in source order.
C10_LineParsing ==
    (fmPc = "parsed" /\ fmFault = 0 /\ HeaderShaped(fmText))
        => fmOut.frontMatter = RuleMapping(HeaderLinesOf(fmText), <<>>)

(***************************************************************************)
(* Specification of extractSvelteComponents applied to a body, and of      *)
(* restoreSvelteComponents applied to what it returned.                    *)
(***************************************************************************)
ExtractInit ==
    /\ exBody \in ExtractBodies
    /\ exPc = "input"
    /\ exOut = [content |-> <<>>, components |-> <<>>]
    /\ exHtml = <<>>
    /\ FrontIdle
    /\ MarkupIdle

Extract ==
    /\ exPc = "input"
    /\ exOut' = ExtractSvelteComponents(exBody)
    /\ exPc' = "extracted"
    /\ UNCHANGED <<exBody, exHtml, frontVars, markupVars>>

Restore ==
    /\ exPc = "extracted"
    /\ exHtml' = RestoreSvelteComponents(exOut.content, exOut.components)
    /\ exPc' = "restored"
    /\ UNCHANGED <<exBody, exOut, frontVars, markupVars>>

ExtractNext == Extract \/ Restore

SpecExtract == ExtractInit /\ [][ExtractNext]_vars

(***************************************************************************)
(* Properties of extractSvelteComponents and restoreSvelteComponents,      *)
(* stated on SpecExtract.                                                  *)
(***************************************************************************)
\* the text with the span of each match replaced by the token given for it
\* and everything outside the spans kept, built from the original text
Rebuild(content, matches, tokens) ==
    LET n == Len(matches)
        first(k) == matches[k].index + 1
        last(k) == matches[k].index + Len(matches[k].fullMatch)
        gap(k) == SubSeq(content, IF k = 1 THEN 1 ELSE last(k - 1) + 1,
                         first(k) - 1)
        rest == SubSeq(content, IF n = 0 THEN 1 ELSE last(n) + 1,
                       Len(content))
    IN  Concat([k \in 1..n |-> gap(k) \o tokens[k]]) \o rest

\* the token built from the index k
TokenOf(k) == PlaceholderPrefix \o NumberToString(k) \o PlaceholderSuffix

\* C8: the k-th match (k from 0) gets the placeholder built from k, and the
\* returned body is the original with exactly each matched span replaced by
\* its own placeholder, whether the span is longer or shorter than it.
C8_ExtractSplicesEachSpan ==
    (exPc \in {"extracted", "restored"}) =>
        LET matches == RegexExecAll(exBody, 1)
        IN  /\ Len(exOut.components) = Len(matches)
            /\ \A k \in 1..Len(matches) :
                   /\ exOut.components[k].placeholder = TokenOf(k - 1)
                   /\ exOut.components[k].fullMatch = matches[k].fullMatch
            /\ exOut.content =
                   Rebuild(exBody, matches,
                           [k \in 1..Len(matches) |-> TokenOf(k - 1)])

\* a span shorter than its placeholder is followed by a span longer than
\* its placeholder, and text follows the last span
C8_Witness ==
    /\ exPc = "extracted"
    /\ Len(exOut.components) >= 2
    /\ Len(exOut.components[1].fullMatch) < Len(TokenOf(0))
    /\ Len(exOut.components[2].fullMatch) > Len(TokenOf(1))
    /\ EndsWith(exBody, SegText)
    /\ EndsWith(exOut.content, TokenOf(1) \o SegText)

\* C9: the placeholders of the recorded occurrences are pairwise distinct
\* and none occurs inside another.
C9_PlaceholdersDistinct ==
    (exPc \in {"extracted", "restored"}) =>
        \A i, j \in 1..Len(exOut.components) :
            i # j =>
                /\ exOut.components[i].placeholder
                       # exOut.components[j].placeholder
                /\ ~Includes(exOut.components[j].placeholder,
                             exOut.components[i].placeholder)

\* the occurrences with index 1 and index 10 are both recorded
C9_Witness ==
    /\ exPc = "extracted"
    /\ Len(exOut.components) >= 11
    /\ exOut.components[2].placeholder = TokenOf(1)
    /\ exOut.components[11].placeholder = TokenOf(10)

\* what a tag is: its name, its attributes text up to surrounding
\* whitespace, and its children (none for a self-closing tag)
TagOf(match) ==
    [name |-> match.name, attributes |-> Trim(match.attributes),
     children |-> match.children]

\* C2 as stated: restoring what extraction returned gives back, tag by tag
\* and in order, a tag equal to the original: the same name, the same
\* attributes text up to whitespace, a paired tag with its children exactly
\* as written, a self-closing tag with none.
C2_RoundTrip ==
    (exPc = "restored") =>
        LET original == RegexExecAll(exBody, 1)
            restored == RegexExecAll(exHtml, 1)
        IN  /\ Len(restored) = Len(original)
            /\ \A k \in 1..Len(original) :
                   TagOf(restored[k]) = TagOf(original[k])

(***************************************************************************)
(* Specification of a build: markup() invocations, one file after another, *)
(* through the exported preprocessor or through one made by the factory,   *)
(* all on the one `marked` singleton.                                      *)
(***************************************************************************)
Init ==
    /\ marked = DefaultMarked
    /\ call = NoCall
    /\ run = NoRun
    /\ result = ReturnsUndefined
    /\ FrontIdle
    /\ ExtractIdle

PreprocessorMarkup ==
    \E content \in Documents, filename \in Filenames :
        LET out == Markup(marked, content, filename)
        IN  /\ call' = [entry |-> "svelteMarkdownPreprocessor",
                        options |-> NoOptions, content |-> content,
                        filename |-> filename]
            /\ result' = out.result
            /\ marked' = out.marked
            /\ run' = out.run
            /\ UNCHANGED <<frontVars, extractVars>>

FactoryPreprocessorMarkup ==
    \E options \in FactoryOptions, content \in Documents,
       filename \in Filenames :
        LET out == FactoryMarkup(marked, options, content, filename)
        IN  /\ call' = [entry |-> "createSvelteMarkdownPreprocessor",
                        options |-> options, content |-> content,
                        filename |-> filename]
            /\ result' = out.result
            /\ marked' = out.marked
            /\ run' = out.run
            /\ UNCHANGED <<frontVars, extractVars>>

Next == PreprocessorMarkup \/ FactoryPreprocessorMarkup

Spec == Init /\ [][Next]_vars

(***************************************************************************)
(* Properties of markup(), stated on Spec.                                 *)
(***************************************************************************)
\* a file name with the hybrid-format extension
HybridName(filename) ==
    /\ filename.defined
    /\ Len(filename.value) >= Len(SvelteMdExt)
    /\ SubSeq(filename.value, Len(filename.value) - Len(SvelteMdExt) + 1,
              Len(filename.value)) = SvelteMdExt

\* C1 as stated: for a document processed under a matching file name, every
\* placeholder produced by the extraction is present in the rendered HTML,
\* and none remains in the final output code.
C1_NoPlaceholderRemains ==
    (result.kind = "returned") =>
        \A k \in 1..Len(run.components) :
            /\ Includes(run.rendered, TokenOf(k - 1))
            /\ ~Includes(result.code, TokenOf(k - 1))

\* the hrefs the documents link to
Hrefs == {HrefHome, HrefOut, HrefLocal}

\* the document links to href
LinksTo(content, href) ==
    Includes(content, <<"]", "(">> \o href \o <<")">>)

\* the link to href is rendered with the external-link attributes
RenderedExternal(code, href) ==
    Includes(code, AnchorOpen \o href \o <<"\"">> \o ExternalTarget \o <<">">>)

\* C5 as stated: for a transformer configured with hostname H (default
\* "localhost"), a rendered link gets the external-link attributes if and
\* only if its target starts with http and does not contain H. Stated for
\* transformers made by the factory and documents that name no hostname of
\* their own.
C5_LinkClassification ==
    (/\ call.entry = "createSvelteMarkdownPreprocessor"
     /\ result.kind = "returned"
     /\ ~Includes(call.content, HostnameKey \o <<":">>))
        => \A href \in Hrefs :
               LinksTo(call.content, href) =>
                   (RenderedExternal(result.code, href)
                    <=> (/\ SubSeq(href, 1, 4) = HttpPrefix
                         /\ ~Includes(href, OrElse(call.options.hostname,
                                                   DefaultHostname))))

\* C6: the outcome of every invocation is the one the same content and file
\* name give on an engine no earlier invocation has configured.
C6_Reentrant ==
    (call.entry # "none") =>
        result = Markup(DefaultMarked, call.content, call.filename).result

\* an invocation that returned a document with a link, on an engine an
\* earlier invocation had left configured for another hostname
C6_Witness ==
    /\ result.kind = "returned"
    /\ run.markedBefore.renderer.custom
    /\ run.markedBefore.renderer.hostname # marked.renderer.hostname
    /\ LinksTo(call.content, HrefHome)
    /\ result = Markup(DefaultMarked, call.content, call.filename).result

\* C7: under a file name without the hybrid-format extension (or without a
\* file name) markup() returns nothing, runs no stage and leaves the engine
\* options as they were; under a matching name it either raises or returns
\* a record with the whole assembled code and a source map.
C7_Dispatch ==
    (call.entry # "none") =>
        IF HybridName(call.filename)
        THEN \/ /\ result.kind = "thrown"
                /\ result.code = <<>>
             \/ /\ result.kind = "returned"
                /\ result.map
                /\ run.stages = PipelineStages
                /\ StartsWith(result.code, ScriptOpen)
                /\ EndsWith(result.code,
                            RestoreSvelteComponents(run.rendered,
                                                    run.components))
        ELSE /\ result.kind = "undefined"
             /\ run.stages = <<>>
             /\ marked = run.markedBefore

\* a declined file on an engine an earlier invocation had configured
C7_WitnessDeclined ==
    /\ call.entry # "none"
    /\ call.filename = Defined(FileMarkdown)
    /\ result.kind = "undefined"
    /\ marked.renderer.custom
====
